---- MODULE Spec2Model ----
(***************************************************************************)
(* Model of the Minesweeper field engine (src/src/mines.rs): MineField,    *)
(* its two constructors, reveal (with first-click relocation, flood-fill   *)
(* and chording) and toggle_flag; and of the cursor of the Minesweeper UI  *)
(* (src/src/mineui.rs).  Points are pairs <<i, j>> with 0-based row i and  *)
(* column j, as in src/src/point.rs.  The two cellular simulations follow: *)
(* GameOfLife (src/gameoflife/src/gameoflife.rs, src/src/gameoflife.rs)    *)
(* and Langton's ant (src/langton/src/main.rs).                            *)
(***************************************************************************)
EXTENDS Integers, Sequences, FiniteSets, TLC

\* Largest number of cells (height * width) of the grids explored.
MaxCells == 4

VARIABLES
    ctor,        \* the constructor call that built the field, with its arguments
    dim,         \* MineField.dim: <<height, width>>
    mines,       \* MineField.mines
    neighbors,   \* MineField.neighbors
    revealed,    \* MineField.revealed
    flagged,     \* MineField.flagged
    n_revealed,  \* MineField.n_revealed
    op,          \* the last public call: "new", "reveal" or "toggle_flag"
    arg,         \* the Point passed to the last call
    res,         \* the MoveResult of the last call
    prev,        \* the field as it was when the last call was issued
    over,        \* some call has returned Win or Lose
    prevOver,    \* value of over when the last call was issued
    ui,          \* the MineUI: gridh, gridw, cursor, mode
    uiCall,      \* the last MineUI call: op, arg, res, and the cursor before it
    life,        \* the GameOfLife: dim, grid, nstep
    lifeCall,    \* the last GameOfLife call: op, res, and the game before it
    langton,     \* the Langton: dim, grid, pos, vel, nstep
    langtonCall  \* the last Langton call: op, res, and the simulation before it

vars == <<ctor, dim, mines, neighbors, revealed, flagged, n_revealed,
          op, arg, res, prev, over, prevOver, ui, uiCall,
          life, lifeCall, langton, langtonCall>>

-----------------------------------------------------------------------------
(* Grid helpers *)

\* index set of an Array2 of shape d
Cells(d) == (0 .. d[1] - 1) \X (0 .. d[2] - 1)

\* Array2::get(p.tuple()) is Some exactly for these points
InBounds(d, p) == p[1] < d[1] /\ p[2] < d[2]

Max(a, b) == IF a >= b THEN a ELSE b
Min(a, b) == IF a <= b THEN a ELSE b

\* the MineField struct as a record
Field == [mines |-> mines, neighbors |-> neighbors, revealed |-> revealed,
          flagged |-> flagged, n_revealed |-> n_revealed, dim |-> dim]

\* copy of mines (as u32) with one layer of zero padding
mines_pad(m, d) ==
    [q \in (0 .. d[1] + 1) \X (0 .. d[2] + 1) |->
        IF q[1] \in 1 .. d[1] /\ q[2] \in 1 .. d[2] /\ m[<<q[1] - 1, q[2] - 1>>]
        THEN 1 ELSE 0]

\* variant: the pass over the diagonal neighbors is missing
n_neighbors_grid_no_diagonals(m, d) ==
    LET pad == mines_pad(m, d) IN
    [c \in Cells(d) |->
        LET i == c[1] + 1
            j == c[2] + 1
        IN  pad[<<i + 1, j>>] + pad[<<i - 1, j>>] + pad[<<i, j - 1>>] + pad[<<i, j + 1>>]]

\* MineField::n_neighbors_grid: sums of the shifted slices of the padded grid
n_neighbors_grid(m, d) ==
    LET pad == mines_pad(m, d) IN
    [c \in Cells(d) |->
        LET i == c[1] + 1
            j == c[2] + 1
            x == pad[<<i + 1, j>>] + pad[<<i - 1, j>>] + pad[<<i, j - 1>>] + pad[<<i, j + 1>>]
        IN  x + pad[<<i + 1, j + 1>>] + pad[<<i + 1, j - 1>>]
              + pad[<<i - 1, j + 1>>] + pad[<<i - 1, j - 1>>]]

\* variant: only the neighbors that share a side with p
neighbors_iter_orthogonal(d, p) ==
    LET imin == Max(p[1], 1) - 1
        jmin == Max(p[2], 1) - 1
        imax == Min(p[1] + 1, d[1] - 1)
        jmax == Min(p[2] + 1, d[2] - 1)
        nc   == jmax - jmin + 1
        nr   == imax - imin + 1
        all  == [k \in 1 .. nr * nc |-> <<imin + ((k - 1) \div nc), jmin + ((k - 1) % nc)>>]
    IN  SelectSeq(all, LAMBDA q : q # p /\ (q[1] = p[1] \/ q[2] = p[2]))

\* variant: the neighbors come in the opposite order
neighbors_iter_reversed(d, p) ==
    LET imin == Max(p[1], 1) - 1
        jmin == Max(p[2], 1) - 1
        imax == Min(p[1] + 1, d[1] - 1)
        jmax == Min(p[2] + 1, d[2] - 1)
        nc   == jmax - jmin + 1
        nr   == imax - imin + 1
        all  == [k \in 1 .. nr * nc |->
                    <<imax - ((k - 1) \div nc), jmax - ((k - 1) % nc)>>]
    IN  SelectSeq(all, LAMBDA q : q # p)

\* MineField::neighbors_iter: the in-bounds 8-neighbors of p in row-major order
neighbors_iter(d, p) ==
    LET imin == Max(p[1], 1) - 1
        jmin == Max(p[2], 1) - 1
        imax == Min(p[1] + 1, d[1] - 1)
        jmax == Min(p[2] + 1, d[2] - 1)
        nc   == jmax - jmin + 1
        nr   == imax - imin + 1
        all  == [k \in 1 .. nr * nc |-> <<imin + ((k - 1) \div nc), jmin + ((k - 1) % nc)>>]
    IN  SelectSeq(all, LAMBDA q : q # p)

-----------------------------------------------------------------------------
(* Queries *)

None == <<>>

\* MineField::is_revealed, is_flag, peek_mine (Option: None when out of bounds)
is_revealed(f, p) == IF InBounds(f.dim, p) THEN <<f.revealed[p]>> ELSE None
is_flag(f, p)     == IF InBounds(f.dim, p) THEN <<f.flagged[p]>> ELSE None
peek_mine(f, p)   == IF InBounds(f.dim, p) THEN <<f.mines[p]>> ELSE None

\* variant: the flag is matched before the revealed bit
view_sq_flag_first(f, p) ==
    IF is_revealed(f, p) = None \/ peek_mine(f, p) = None \/ is_flag(f, p) = None
    THEN None
    ELSE IF f.flagged[p] THEN <<"Flag">>
    ELSE IF ~f.revealed[p] THEN <<"Hidden">>
    ELSE (IF f.mines[p] THEN <<"Mine">> ELSE <<"Revealed", f.neighbors[p]>>)

\* variant: a flag on a covered square is not looked at
view_sq_no_flag(f, p) ==
    IF is_revealed(f, p) = None \/ peek_mine(f, p) = None \/ is_flag(f, p) = None
    THEN None
    ELSE IF ~f.revealed[p]
         THEN <<"Hidden">>
         ELSE (IF f.mines[p] THEN <<"Mine">> ELSE <<"Revealed", f.neighbors[p]>>)

\* MineField::view_sq; a SquareView is <<"Hidden">>, <<"Flag">>,
\* <<"Revealed", n>> or <<"Mine">>
view_sq(f, p) ==
    IF is_revealed(f, p) = None \/ peek_mine(f, p) = None \/ is_flag(f, p) = None
    THEN None
    ELSE IF ~f.revealed[p]
         THEN (IF f.flagged[p] THEN <<"Flag">> ELSE <<"Hidden">>)
         ELSE (IF f.mines[p] THEN <<"Mine">> ELSE <<"Revealed", f.neighbors[p]>>)

\* Array2::iter: the k-th element (from 1) of a grid of shape d, in logical
\* (row-major) order
ArrayIter(g, d, k) == g[<<(k - 1) \div d[2], (k - 1) % d[2]>>]

\* the closure of get_view_iter, applied to one zipped tuple
view_of_tuple(rev, mine, flag, nn) ==
    IF ~rev THEN (IF flag THEN <<"Flag">> ELSE <<"Hidden">>)
    ELSE (IF mine THEN <<"Mine">> ELSE <<"Revealed", nn>>)

\* variant: mines and flagged are zipped in the other order
get_view_iter_swapped(f) ==
    [k \in 1 .. f.dim[1] * f.dim[2] |->
        view_of_tuple(ArrayIter(f.revealed, f.dim, k), ArrayIter(f.flagged, f.dim, k),
                      ArrayIter(f.mines, f.dim, k), ArrayIter(f.neighbors, f.dim, k))]

\* MineField::get_view_iter: the items it yields, in order
get_view_iter(f) ==
    [k \in 1 .. f.dim[1] * f.dim[2] |->
        view_of_tuple(ArrayIter(f.revealed, f.dim, k), ArrayIter(f.mines, f.dim, k),
                      ArrayIter(f.flagged, f.dim, k), ArrayIter(f.neighbors, f.dim, k))]

\* number of TRUE entries of a boolean grid
CountTrue(g) == Cardinality({c \in DOMAIN g : g[c]})

\* variant: the mines are not subtracted
game_won_all_squares(f) ==
    f.n_revealed = Cardinality(DOMAIN f.mines)

\* variant: the win is declared one square late
game_won_one_late(f) ==
    LET n_mines   == CountTrue(f.mines)
        n_squares == Cardinality(DOMAIN f.mines)
    IN  f.n_revealed = n_squares - n_mines + 1

\* MineField::game_won
game_won(f) ==
    LET n_mines   == CountTrue(f.mines)
        n_squares == Cardinality(DOMAIN f.mines)
    IN  f.n_revealed = n_squares - n_mines

-----------------------------------------------------------------------------
(* Mutators *)

\* variant: the sweep leaves flagged mines covered
reveal_all_mines_skip_flagged(f) ==
    [f EXCEPT !.revealed = [c \in DOMAIN f.revealed |->
                              (f.mines[c] /\ ~f.flagged[c]) \/ f.revealed[c]]]

\* variant: the sweep uncovers every square
reveal_all_mines_all_squares(f) ==
    [f EXCEPT !.revealed = [c \in DOMAIN f.revealed |-> TRUE]]

\* MineField::reveal_all_mines
reveal_all_mines(f) ==
    [f EXCEPT !.revealed = [c \in DOMAIN f.revealed |-> f.mines[c] \/ f.revealed[c]]]

\* variant: the old mine is never unset
move_mine_keep_old(f, mine, rnd) ==
    IF ~f.mines[mine] THEN [f |-> f, res |-> "Panic"]
    ELSE IF \A c \in DOMAIN f.mines : f.mines[c] THEN [f |-> f, res |-> "NoReturn"]
    ELSE LET m1 == [f.mines EXCEPT ![rnd] = TRUE]
         IN  [f   |-> [f EXCEPT !.mines = m1, !.neighbors = n_neighbors_grid(m1, f.dim)],
              res |-> "Ok"]

\* variant: the old mine is unset but no square is made a mine
move_mine_drop(f, mine, rnd) ==
    IF ~f.mines[mine] THEN [f |-> f, res |-> "Panic"]
    ELSE LET m2 == [f.mines EXCEPT ![mine] = FALSE]
         IN  [f   |-> [f EXCEPT !.mines = m2, !.neighbors = n_neighbors_grid(m2, f.dim)],
              res |-> "Ok"]

\* variant: the neighbor grid is not recomputed after the move
move_mine_stale_counts(f, mine, rnd) ==
    IF ~f.mines[mine] THEN [f |-> f, res |-> "Panic"]
    ELSE IF \A c \in DOMAIN f.mines : f.mines[c] THEN [f |-> f, res |-> "NoReturn"]
    ELSE LET m1 == [f.mines EXCEPT ![rnd] = TRUE]
             m2 == [m1 EXCEPT ![mine] = FALSE]
         IN  [f |-> [f EXCEPT !.mines = m2], res |-> "Ok"]

\* variant: the mine goes to a fixed free square, whatever the loop drew
move_mine_first_free(f, mine, rnd) ==
    IF ~f.mines[mine] THEN [f |-> f, res |-> "Panic"]
    ELSE IF \A c \in DOMAIN f.mines : f.mines[c] THEN [f |-> f, res |-> "NoReturn"]
    ELSE LET to == CHOOSE c \in DOMAIN f.mines : ~f.mines[c]
             m1 == [f.mines EXCEPT ![to] = TRUE]
             m2 == [m1 EXCEPT ![mine] = FALSE]
         IN  [f   |-> [f EXCEPT !.mines = m2, !.neighbors = n_neighbors_grid(m2, f.dim)],
              res |-> "Ok"]

\* variant: the counts are recomputed before the new mine is set
move_mine_counts_too_early(f, mine, rnd) ==
    IF ~f.mines[mine] THEN [f |-> f, res |-> "Panic"]
    ELSE IF \A c \in DOMAIN f.mines : f.mines[c] THEN [f |-> f, res |-> "NoReturn"]
    ELSE LET m0 == [f.mines EXCEPT ![mine] = FALSE]
             m2 == [m0 EXCEPT ![rnd] = TRUE]
         IN  [f   |-> [f EXCEPT !.mines = m2, !.neighbors = n_neighbors_grid(m0, f.dim)],
              res |-> "Ok"]

\* variant: a flag on the square that receives the mine is removed
move_mine_clears_flag(f, mine, rnd) ==
    IF ~f.mines[mine] THEN [f |-> f, res |-> "Panic"]
    ELSE IF \A c \in DOMAIN f.mines : f.mines[c] THEN [f |-> f, res |-> "NoReturn"]
    ELSE LET m1 == [f.mines EXCEPT ![rnd] = TRUE]
             m2 == [m1 EXCEPT ![mine] = FALSE]
         IN  [f   |-> [f EXCEPT !.mines = m2, !.neighbors = n_neighbors_grid(m2, f.dim),
                                !.flagged[rnd] = FALSE],
              res |-> "Ok"]

\* variant: the "is a mine" test looks at the drawn square
move_mine_tests_drawn(f, mine, rnd) ==
    IF ~f.mines[rnd] THEN [f |-> f, res |-> "Panic"]
    ELSE IF \A c \in DOMAIN f.mines : f.mines[c] THEN [f |-> f, res |-> "NoReturn"]
    ELSE LET m1 == [f.mines EXCEPT ![rnd] = TRUE]
             m2 == [m1 EXCEPT ![mine] = FALSE]
         IN  [f   |-> [f EXCEPT !.mines = m2, !.neighbors = n_neighbors_grid(m2, f.dim)],
              res |-> "Ok"]

\* MineField::move_mine.  rnd is the square on which the choose_mut loop
\* stops; the loop never stops when no square is a non-mine ("NoReturn").
move_mine(f, mine, rnd) ==
    IF ~f.mines[mine] THEN [f |-> f, res |-> "Panic"]
    ELSE IF \A c \in DOMAIN f.mines : f.mines[c] THEN [f |-> f, res |-> "NoReturn"]
    ELSE LET m1 == [f.mines EXCEPT ![rnd] = TRUE]
             m2 == [m1 EXCEPT ![mine] = FALSE]
         IN  [f   |-> [f EXCEPT !.mines = m2, !.neighbors = n_neighbors_grid(m2, f.dim)],
              res |-> "Ok"]

\* outcomes that are not a returned MoveResult
Aborted(r) == r \in {"Panic", "NoReturn"}

\* variant: the square is uncovered but not counted
mark_revealed_uncounted(f, p) ==
    [f EXCEPT !.revealed[p] = TRUE]

\* variant: the square is counted twice
mark_revealed_counted_twice(f, p) ==
    [f EXCEPT !.revealed[p] = TRUE, !.n_revealed = @ + 2]

\* the Hidden arm of reveal: mark the square as revealed and count it
mark_revealed(f, p) ==
    [f EXCEPT !.revealed[p] = TRUE, !.n_revealed = @ + 1]

RECURSIVE reveal(_, _, _), reveal_neighbors_from(_, _, _, _, _)

\* MineField::reveal_neighbors, with the for loop at position k of the
\* neighbor sequence and res the result so far
reveal_neighbors_from(f, p, rnd, k, r) ==
    LET ns == neighbors_iter(f.dim, p) IN
    IF k > Len(ns) THEN [f |-> f, res |-> r]
    ELSE IF ~f.revealed[ns[k]]
         THEN LET c == reveal(f, ns[k], rnd) IN
              IF c.res # "Ok" THEN c
              ELSE reveal_neighbors_from(c.f, p, rnd, k + 1, c.res)
         ELSE reveal_neighbors_from(f, p, rnd, k + 1, r)

reveal_neighbors(f, p, rnd) == reveal_neighbors_from(f, p, rnd, 1, "Ok")

\* variant: a second reveal of a square does nothing
chord_refused(f, p, rnd) == [f |-> f, res |-> "Ok"]

\* variant: the flag count is not compared with the mine count
chord_unchecked(f, p, rnd) == reveal_neighbors(f, p, rnd)

\* variant: a chord whose flag count does not match is rejected
chord_mismatch_err(f, p, rnd) ==
    LET nn_mines == f.neighbors[p]
        ns       == neighbors_iter(f.dim, p)
        nn_flags == Cardinality({k \in 1 .. Len(ns) : f.flagged[ns[k]]})
    IN  IF nn_mines = nn_flags THEN reveal_neighbors(f, p, rnd)
        ELSE [f |-> f, res |-> "Err"]

\* MineField::chord
chord(f, p, rnd) ==
    LET nn_mines == f.neighbors[p]
        ns       == neighbors_iter(f.dim, p)
        nn_flags == Cardinality({k \in 1 .. Len(ns) : f.flagged[ns[k]]})
    IN  IF nn_mines = nn_flags THEN reveal_neighbors(f, p, rnd)
        ELSE [f |-> f, res |-> "Ok"]

\* MineField::reveal
reveal(f, p, rnd) ==
    LET v == view_sq(f, p) IN
    IF v = None THEN [f |-> f, res |-> "Err"]
    ELSE IF v = <<"Flag">> THEN [f |-> f, res |-> "Ok"]
    ELSE IF v[1] = "Revealed" THEN chord(f, p, rnd)
    ELSE
      LET f1 == IF v = <<"Hidden">>
                THEN mark_revealed(f, p)
                ELSE f
      IN
      IF f1.mines[p] /\ f1.n_revealed # 1
      THEN [f |-> reveal_all_mines(f1), res |-> "Lose"]
      ELSE
        LET mm == IF f1.mines[p] THEN move_mine(f1, p, rnd) ELSE [f |-> f1, res |-> "Ok"] IN
        IF Aborted(mm.res) THEN mm
        ELSE
          LET fl == IF mm.f.neighbors[p] = 0
                    THEN reveal_neighbors(mm.f, p, rnd)
                    ELSE [f |-> mm.f, res |-> "Ok"]
          IN
          IF Aborted(fl.res) THEN fl
          ELSE IF game_won(fl.f)
               THEN [f |-> reveal_all_mines(fl.f), res |-> "Win"]
               ELSE [f |-> fl.f, res |-> "Ok"]

\* variant: the flag is set, never cleared
toggle_flag_set_only(f, p) ==
    IF is_revealed(f, p) = <<TRUE>> THEN [f |-> f, res |-> "Ok"]
    ELSE IF InBounds(f.dim, p)
         THEN [f |-> [f EXCEPT !.flagged[p] = TRUE], res |-> "Ok"]
         ELSE [f |-> f, res |-> "Err"]

\* variant: the revealed check is missing
toggle_flag_revealed_too(f, p) ==
    IF InBounds(f.dim, p)
    THEN [f |-> [f EXCEPT !.flagged[p] = ~@], res |-> "Ok"]
    ELSE [f |-> f, res |-> "Err"]

\* variant: an out-of-grid point is accepted
toggle_flag_oob_ok(f, p) ==
    IF is_revealed(f, p) = <<TRUE>> THEN [f |-> f, res |-> "Ok"]
    ELSE IF InBounds(f.dim, p)
         THEN [f |-> [f EXCEPT !.flagged[p] = ~@], res |-> "Ok"]
         ELSE [f |-> f, res |-> "Ok"]

\* MineField::toggle_flag
toggle_flag(f, p) ==
    IF is_revealed(f, p) = <<TRUE>> THEN [f |-> f, res |-> "Ok"]
    ELSE IF InBounds(f.dim, p)
         THEN [f |-> [f EXCEPT !.flagged[p] = ~@], res |-> "Ok"]
         ELSE [f |-> f, res |-> "Err"]

-----------------------------------------------------------------------------
(* Constructors *)

\* (height, width) arguments explored: from 0, with at most MaxCells cells
Dims == {d \in (0 .. MaxCells) \X (0 .. MaxCells) : d[1] * d[2] <= MaxCells}

\* the struct built by both constructors from a mine grid m of shape d
NewField(m, d) ==
    [mines |-> m, neighbors |-> n_neighbors_grid(m, d),
     revealed |-> [c \in Cells(d) |-> FALSE],
     flagged |-> [c \in Cells(d) |-> FALSE],
     n_revealed |-> 0, dim |-> d]

\* variant: the assertion on n_mines is <= instead of <
with_n_mines_allow_full(height, width, n) ==
    IF ~(height > 0 /\ width > 0) \/ ~(n <= height * width) THEN {}
    ELSE LET d == <<height, width>> IN
         {NewField([c \in Cells(d) |-> c \in S], d) :
             S \in {T \in SUBSET Cells(d) : Cardinality(T) = n}}

\* MineField::with_n_mines: the fields it can return for (height, width, n);
\* none when an assertion fails
with_n_mines(height, width, n) ==
    IF ~(height > 0 /\ width > 0) \/ ~(n < height * width) THEN {}
    ELSE LET d == <<height, width>> IN
         {NewField([c \in Cells(d) |-> c \in S], d) :
             S \in {T \in SUBSET Cells(d) : Cardinality(T) = n}}

\* MineField::with_mine_ratio: fill is "0", "1", "between" (0 < ratio < 1) or
\* "outside" (a ratio Bernoulli::new rejects); no field when it panics
with_mine_ratio(height, width, fill) ==
    IF ~(height > 0 /\ width > 0) \/ fill = "outside" THEN {}
    ELSE LET d == <<height, width>> IN
         {NewField([c \in Cells(d) |-> c \in S], d) :
             S \in {T \in SUBSET Cells(d) :
                      /\ fill = "0" => T = {}
                      /\ fill = "1" => T = Cells(d)}}

-----------------------------------------------------------------------------
(* State machine *)

Install(f) ==
    /\ dim = f.dim
    /\ mines = f.mines
    /\ neighbors = f.neighbors
    /\ revealed = f.revealed
    /\ flagged = f.flagged
    /\ n_revealed = f.n_revealed

\* what the variables hold when the constructor panicked: there is no field
NoField == NewField(<<>>, <<0, 0>>)

\* no MineUI is in play
NoUI ==
    /\ ui = [gridh |-> 0, gridw |-> 0, cursor |-> <<0, 0>>, mode |-> "Reveal"]
    /\ uiCall = [op |-> "none", arg |-> <<0, 0>>, res |-> "Ok", prev |-> <<0, 0>>]

\* no GameOfLife is in play
NoLife ==
    /\ life = [dim |-> <<0, 0>>, grid |-> <<>>, nstep |-> 0]
    /\ lifeCall = [op |-> "none", res |-> "Ok", prev |-> life]

\* no Langton is in play
NoLangton ==
    /\ langton = [dim |-> <<0, 0>>, grid |-> <<>>, pos |-> <<0, 0>>,
                  vel |-> <<0, 1>>, nstep |-> 0]
    /\ langtonCall = [op |-> "none", res |-> "Ok", prev |-> langton]

\* a constructor call: the field it returns, or a panic
Construct(call, fields) ==
    IF fields = {}
    THEN /\ ctor = [call EXCEPT !.built = FALSE]
         /\ Install(NoField)
         /\ prev = NoField
         /\ res = "Panic"
    ELSE \E f \in fields :
            /\ ctor = call
            /\ Install(f)
            /\ prev = f
            /\ res = "Ok"

Init ==
    /\ \E d \in Dims :
         \/ \E n \in 0 .. MaxCells :
               Construct([fn |-> "with_n_mines", height |-> d[1], width |-> d[2],
                          n_mines |-> n, built |-> TRUE],
                         with_n_mines(d[1], d[2], n))
         \/ \E fill \in {"0", "between", "1", "outside"} :
               Construct([fn |-> "with_mine_ratio", height |-> d[1], width |-> d[2],
                          fill_ratio |-> fill, built |-> TRUE],
                         with_mine_ratio(d[1], d[2], fill))
    /\ op = "new"
    /\ arg = <<0, 0>>
    /\ over = FALSE
    /\ prevOver = FALSE
    /\ NoUI
    /\ NoLife
    /\ NoLangton

\* points a caller may pass: every cell, and a point past the last row, past
\* the last column, and past both
Points == Cells(dim) \cup {<<dim[1], 0>>, <<0, dim[2]>>, <<dim[1], dim[2]>>}

\* squares on which the choose_mut loop of move_mine can stop when reveal(p)
\* reaches it: any non-mine square.  move_mine is only reached for a p that
\* holds a mine; for any other p the draw is never made.
LoopStops(p) ==
    IF InBounds(dim, p) /\ mines[p] /\ (\E c \in Cells(dim) : ~mines[c])
    THEN {c \in Cells(dim) : ~mines[c]}
    ELSE {p}

Apply(name, p, out) ==
    /\ op' = name
    /\ arg' = p
    /\ res' = out.res
    /\ prev' = Field
    /\ prevOver' = over
    /\ over' = (over \/ out.res \in {"Win", "Lose"})
    /\ mines' = out.f.mines
    /\ neighbors' = out.f.neighbors
    /\ revealed' = out.f.revealed
    /\ flagged' = out.f.flagged
    /\ n_revealed' = out.f.n_revealed
    /\ UNCHANGED <<ctor, dim, ui, uiCall, life, lifeCall, langton, langtonCall>>

\* a call that did not return leaves no caller to issue another one
Running == ~Aborted(res)

Reveal ==
    /\ Running
    /\ \E p \in Points : \E rnd \in LoopStops(p) : Apply("reveal", p, reveal(Field, p, rnd))

ToggleFlag ==
    /\ Running
    /\ \E p \in Points : Apply("toggle_flag", p, toggle_flag(Field, p))

Next == Reveal \/ ToggleFlag

Spec == Init /\ [][Next]_vars

\* Play on the boards with at least two rows and two columns, built by
\* with_n_mines with a few mines: the boards on which a square has neighbors
\* that are not next to each other.
WideCells == 6
WideMines == 1

WideDims == {d \in (2 .. WideCells) \X (2 .. WideCells) : d[1] * d[2] <= WideCells}

InitWide ==
    /\ \E d \in WideDims : \E n \in 1 .. WideMines :
          Construct([fn |-> "with_n_mines", height |-> d[1], width |-> d[2],
                     n_mines |-> n, built |-> TRUE],
                    with_n_mines(d[1], d[2], n))
    /\ op = "new"
    /\ arg = <<0, 0>>
    /\ over = FALSE
    /\ prevOver = FALSE
    /\ NoUI
    /\ NoLife
    /\ NoLangton

SpecWide == InitWide /\ [][Next]_vars

-----------------------------------------------------------------------------
(* MineUI (src/src/mineui.rs): the cursor *)

\* The code casts the cursor coordinates from usize to u32, which has 32 bits.
\* Here u32 has CastBits bits and usize is unbounded, so that a grid with more
\* rows than a u32 can count is small enough to explore.
CastBits == 2

\* largest height and width explored: two more than the largest u32
MaxGrid == 2 ^ CastBits + 2

\* x as u32
as_u32(x) == x % (2 ^ CastBits)

\* u32::checked_add_signed
checked_add_signed(x, d) ==
    IF x + d < 0 \/ x + d >= 2 ^ CastBits THEN None ELSE <<x + d>>

Directions == {"Up", "Down", "Left", "Right"}

\* the match on dir in move_cursor
delta(dir) ==
    CASE dir = "Up"    -> <<-1, 0>>
      [] dir = "Down"  -> <<1, 0>>
      [] dir = "Left"  -> <<0, -1>>
      [] dir = "Right" -> <<0, 1>>

\* MineUI::new
MineUI_new(height, width) ==
    [gridh |-> height, gridw |-> width, cursor |-> <<0, 0>>, mode |-> "Reveal"]

\* MineUI::reset_cursor
reset_cursor(u, p) ==
    IF p[1] >= u.gridh \/ p[2] >= u.gridw
    THEN [ui |-> u, res |-> "Err"]
    ELSE [ui |-> [u EXCEPT !.cursor = p], res |-> "Ok"]

\* MineUI::move_cursor
move_cursor(u, dir) ==
    LET cur_i == as_u32(u.cursor[1])
        cur_j == as_u32(u.cursor[2])
        new_i == checked_add_signed(cur_i, delta(dir)[1])
        new_j == checked_add_signed(cur_j, delta(dir)[2])
    IN  IF new_i = None THEN [ui |-> u, res |-> "Err"]
        ELSE IF new_j = None THEN [ui |-> u, res |-> "Err"]
        ELSE IF new_i[1] >= u.gridh THEN [ui |-> u, res |-> "Err"]
        ELSE IF new_j[1] >= u.gridw THEN [ui |-> u, res |-> "Err"]
        ELSE reset_cursor(u, <<new_i[1], new_j[1]>>)

\* no MineField is in play
NoGame ==
    /\ ctor = [fn |-> "none", built |-> FALSE]
    /\ Install(NoField)
    /\ prev = NoField
    /\ op = "new"
    /\ arg = <<0, 0>>
    /\ res = "Ok"
    /\ over = FALSE
    /\ prevOver = FALSE

InitUI ==
    /\ NoGame
    /\ NoLife
    /\ NoLangton
    /\ \E height, width \in 0 .. MaxGrid :
          /\ ui = MineUI_new(height, width)
          /\ uiCall = [op |-> "new", dir |-> "None", p |-> <<height, width>>,
                       res |-> "Ok", prev |-> <<0, 0>>]

\* points a caller may pass to reset_cursor
UIPoints == (0 .. MaxGrid) \X (0 .. MaxGrid)

ApplyUI(name, dir, p, out) ==
    /\ ui' = out.ui
    /\ uiCall' = [op |-> name, dir |-> dir, p |-> p, res |-> out.res,
                  prev |-> ui.cursor]
    /\ UNCHANGED <<ctor, dim, mines, neighbors, revealed, flagged, n_revealed,
                   op, arg, res, prev, over, prevOver,
                   life, lifeCall, langton, langtonCall>>

MoveCursor ==
    \E dir \in Directions : ApplyUI("move_cursor", dir, <<0, 0>>, move_cursor(ui, dir))

ResetCursor ==
    \E p \in UIPoints : ApplyUI("reset_cursor", "None", p, reset_cursor(ui, p))

NextUI == MoveCursor \/ ResetCursor

SpecUI == InitUI /\ [][NextUI]_vars

-----------------------------------------------------------------------------
(* GameOfLife (src/gameoflife/src/gameoflife.rs; src/src/gameoflife.rs has *)
(* the same tick, transition and num_neighbors_grid)                       *)

\* Largest number of cells (height * width) of the Game of Life grids.
LifeCells == 9

\* the field variables and the MineUI are idle while a simulation runs
NoMines ==
    /\ NoGame
    /\ NoUI

\* GameOfLife::new (src/src/gameoflife.rs): every cell dead
GameOfLife_new(height, width) ==
    [dim |-> <<height, width>>,
     grid |-> [c \in Cells(<<height, width>>) |-> FALSE],
     nstep |-> 0]

\* GameOfLife::random: the games it can return, none when Bernoulli::new
\* rejects the ratio.  A ratio of 0 draws only dead cells, a ratio of 1 only
\* live ones, a ratio in between any grid.
GameOfLife_random(height, width, fill) ==
    LET d == <<height, width>>
        draws == CASE fill = "0" -> {FALSE}
                   [] fill = "1" -> {TRUE}
                   [] fill = "between" -> BOOLEAN
                   [] OTHER -> {}
    IN  {[dim |-> d, grid |-> g, nstep |-> 0] : g \in [Cells(d) -> draws]}

\* copy of the grid (as u32) with one layer of zero padding
grid_pad(g, d) ==
    [q \in (0 .. d[1] + 1) \X (0 .. d[2] + 1) |->
        IF q[1] \in 1 .. d[1] /\ q[2] \in 1 .. d[2] /\ g[<<q[1] - 1, q[2] - 1>>]
        THEN 1 ELSE 0]

\* GameOfLife::num_neighbors_grid: the side neighbors, then the diagonal ones
num_neighbors_grid(g, d) ==
    LET pad == grid_pad(g, d) IN
    [c \in Cells(d) |->
        LET i == c[1] + 1
            j == c[2] + 1
            x == pad[<<i + 1, j>>] + pad[<<i - 1, j>>] + pad[<<i, j - 1>>] + pad[<<i, j + 1>>]
        IN  x + pad[<<i + 1, j + 1>>] + pad[<<i + 1, j - 1>>]
              + pad[<<i - 1, j + 1>>] + pad[<<i - 1, j - 1>>]]

\* GameOfLife::transition
transition(live_cell, n_neighbors) ==
    IF live_cell THEN n_neighbors \in {2, 3} ELSE n_neighbors = 3

\* GameOfLife::tick.  nstep is a u32 (of CastBits bits here): nstep += 1 at
\* the largest value panics in a build with overflow checks, after the loop
\* has rewritten the grid, and wraps to 0 in a build without them.
GameOfLife_tick(l, overflow_checks) ==
    LET neighbors_grid == num_neighbors_grid(l.grid, l.dim)
        newgrid == [c \in Cells(l.dim) |-> transition(l.grid[c], neighbors_grid[c])]
    IN  IF l.nstep + 1 = as_u32(l.nstep + 1)
        THEN [life |-> [l EXCEPT !.grid = newgrid, !.nstep = l.nstep + 1], res |-> "Ok"]
        ELSE IF overflow_checks
        THEN [life |-> [l EXCEPT !.grid = newgrid], res |-> "Panic"]
        ELSE [life |-> [l EXCEPT !.grid = newgrid, !.nstep = as_u32(l.nstep + 1)],
              res |-> "Ok"]

LifeDims == {d \in (0 .. LifeCells) \X (0 .. LifeCells) : d[1] * d[2] <= LifeCells}

InitLife ==
    /\ NoMines
    /\ NoLangton
    /\ \E d \in LifeDims :
         \/ /\ life = GameOfLife_new(d[1], d[2])
            /\ lifeCall = [op |-> "new", res |-> "Ok", prev |-> life]
         \/ \E fill \in {"0", "between", "1", "outside"} :
               LET games == GameOfLife_random(d[1], d[2], fill) IN
               IF games = {}
               THEN /\ life = [dim |-> <<0, 0>>, grid |-> <<>>, nstep |-> 0]
                    /\ lifeCall = [op |-> "random", res |-> "Panic", prev |-> life]
               ELSE /\ life \in games
                    /\ lifeCall = [op |-> "random", res |-> "Ok", prev |-> life]

ApplyLife(name, out) ==
    /\ life' = out.life
    /\ lifeCall' = [op |-> name, res |-> out.res, prev |-> life]
    /\ UNCHANGED <<ctor, dim, mines, neighbors, revealed, flagged, n_revealed,
                   op, arg, res, prev, over, prevOver, ui, uiCall,
                   langton, langtonCall>>

LifeTick ==
    /\ lifeCall.res = "Ok"
    /\ \E overflow_checks \in BOOLEAN :
          ApplyLife("tick", GameOfLife_tick(life, overflow_checks))

NextLife == LifeTick

SpecLife == InitLife /\ [][NextLife]_vars

-----------------------------------------------------------------------------
(* Langton's ant (src/langton/src/main.rs) *)

\* Largest number of squares (height * width) of the ant's grids.
LangtonCells == 9

\* move_ant casts the ant's position and the grid's shape from usize to i32.
\* Here i32 has IntBits bits and usize is unbounded, so that a grid with more
\* rows than an i32 can count is small enough to explore.
IntBits == 3

i32_MIN == 0 - 2 ^ (IntBits - 1)
i32_MAX == 2 ^ (IntBits - 1) - 1

\* x as i32: the low IntBits bits of x, read as a two's complement number
as_i32(x) ==
    LET low == x % (2 ^ IntBits)
    IN  IF low > i32_MAX THEN low - 2 ^ IntBits ELSE low

\* i32 addition: None where a build with overflow checks panics, the wrapped
\* sum in a build without them
add_i32(a, b, overflow_checks) ==
    IF a + b \in i32_MIN .. i32_MAX THEN <<a + b>>
    ELSE IF overflow_checks THEN None
    ELSE <<as_i32(a + b)>>

\* i32::rem_euclid: the remainder in 0 .. |rhs| - 1; None where it panics (rhs
\* is zero, or the division overflows)
rem_euclid(lhs, rhs) ==
    IF rhs = 0 THEN None
    ELSE IF lhs = i32_MIN /\ rhs = -1 THEN None
    ELSE <<lhs % (IF rhs < 0 THEN 0 - rhs ELSE rhs)>>

\* Langton::new_centered: a blank grid, the ant in the middle heading (0, 1)
Langton_new_centered(height, width) ==
    [dim |-> <<height, width>>,
     grid |-> [c \in Cells(<<height, width>>) |-> FALSE],
     pos |-> <<height \div 2, width \div 2>>,
     vel |-> <<0, 1>>,
     nstep |-> 0]

\* the rotation matrices of Direction::rotate, as rows
rot_mat(rot) ==
    IF rot = "CW" THEN << <<0, 1>>, <<-1, 0>> >> ELSE << <<0, -1>>, <<1, 0>> >>

\* Array1::dot with a 2 x 2 matrix: the row vector times the matrix
dot(vec, mat) ==
    <<vec[1] * mat[1][1] + vec[2] * mat[2][1],
      vec[1] * mat[1][2] + vec[2] * mat[2][2]>>

\* Direction::rotate
Direction_rotate(vec, rot) == dot(vec, rot_mat(rot))

\* Langton::get_square_ptr: the square under the ant, None where expect panics
get_square_ptr(l) ==
    IF InBounds(l.dim, l.pos) THEN <<l.grid[l.pos]>> ELSE None

\* one axis of the azip of move_ant: (p + v).rem_euclid(g as i32), as usize
move_axis(p, v, g, overflow_checks) ==
    LET sum == add_i32(as_i32(p), v, overflow_checks)
    IN  IF sum = None THEN None ELSE rem_euclid(sum[1], as_i32(g))

\* Langton::move_ant: the new position, None where it panics
move_ant(l, overflow_checks) ==
    LET p1 == move_axis(l.pos[1], l.vel[1], l.dim[1], overflow_checks)
        p2 == move_axis(l.pos[2], l.vel[2], l.dim[2], overflow_checks)
    IN  IF p1 = None \/ p2 = None THEN None ELSE <<p1[1], p2[1]>>

\* Langton::flip_square
flip_square(b) == ~b

\* Langton::tick: rotate by the square under the ant, flip it, move, count.
\* A panic leaves what the earlier steps of the tick have already written.
Langton_tick(l, overflow_checks) ==
    LET sq == get_square_ptr(l) IN
    IF sq = None THEN [langton |-> l, res |-> "Panic"]
    ELSE
    LET rot == IF sq[1] THEN "CCW" ELSE "CW"
        turned == [l EXCEPT !.vel = Direction_rotate(l.vel, rot),
                            !.grid = [l.grid EXCEPT ![l.pos] = flip_square(sq[1])]]
        newpos == move_ant(turned, overflow_checks)
    IN  IF newpos = None THEN [langton |-> turned, res |-> "Panic"]
        ELSE
        LET moved == [turned EXCEPT !.pos = newpos]
        IN  IF l.nstep + 1 = as_u32(l.nstep + 1)
            THEN [langton |-> [moved EXCEPT !.nstep = l.nstep + 1], res |-> "Ok"]
            ELSE IF overflow_checks
            THEN [langton |-> moved, res |-> "Panic"]
            ELSE [langton |-> [moved EXCEPT !.nstep = as_u32(l.nstep + 1)],
                  res |-> "Ok"]

LangtonDims ==
    {d \in (0 .. LangtonCells) \X (0 .. LangtonCells) : d[1] * d[2] <= LangtonCells}

InitLangton ==
    /\ NoMines
    /\ NoLife
    /\ \E d \in LangtonDims :
          /\ langton = Langton_new_centered(d[1], d[2])
          /\ langtonCall = [op |-> "new_centered", res |-> "Ok", prev |-> langton]

ApplyLangton(name, out) ==
    /\ langton' = out.langton
    /\ langtonCall' = [op |-> name, res |-> out.res, prev |-> langton]
    /\ UNCHANGED <<ctor, dim, mines, neighbors, revealed, flagged, n_revealed,
                   op, arg, res, prev, over, prevOver, ui, uiCall,
                   life, lifeCall>>

LangtonTick ==
    /\ langtonCall.res = "Ok"
    /\ \E overflow_checks \in BOOLEAN :
          ApplyLangton("tick", Langton_tick(langton, overflow_checks))

NextLangton == LangtonTick

SpecLangton == InitLangton /\ [][NextLangton]_vars

-----------------------------------------------------------------------------
(* Vocabulary of the properties.  They read the raw grids, not the model's *)
(* own helpers, so that each is decided by what the operations did.        *)

BuiltByNMines == ctor.fn = "with_n_mines" /\ ctor.built

\* q is one of the up to 8 squares around c
Adjacent(c, q) ==
    /\ c # q
    /\ c[1] - q[1] \in {-1, 0, 1}
    /\ c[2] - q[2] \in {-1, 0, 1}

Around(c) == {q \in Cells(dim) : Adjacent(c, q)}

\* the last call was reveal(arg) / toggle_flag(arg) on a square of the grid
RevealedCell == op = "reveal" /\ arg \in Cells(dim)

\* arg was hidden and unflagged when the last call was issued
WasHidden == ~prev.revealed[arg] /\ ~prev.flagged[arg]

\* squares uncovered by the last call
NewlyRevealed == {c \in Cells(dim) : revealed[c] /\ ~prev.revealed[c]}

Returned == ~Aborted(res)

FieldUnchanged == Field = prev

SafeSquares == {c \in Cells(dim) : ~mines[c]}
MineSquares == {c \in Cells(dim) : mines[c]}

\* the view of a mine square is Mine: it is uncovered
MinesShown == \A c \in MineSquares : revealed[c]

\* the counter has the value at which game_won declares a win
AtWinCount == n_revealed = Cardinality(Cells(dim)) - Cardinality(MineSquares)

-----------------------------------------------------------------------------
\* C1: on a field built by with_n_mines, the reveal call that uncovers the
\* first square of the game (a hidden, unflagged square, revealed_count 0
\* before) returns Ok or Win, never Lose, and the clicked square holds no mine
\* afterwards.
C1_FirstClickSafe ==
    (BuiltByNMines /\ RevealedCell /\ WasHidden /\ prev.n_revealed = 0)
        => (res \in {"Ok", "Win"} /\ ~mines[arg] /\ revealed[arg])

\* the first click hit a mine, which was moved away
C1_Witness ==
    /\ BuiltByNMines /\ RevealedCell /\ WasHidden /\ prev.n_revealed = 0
    /\ prev.mines[arg] /\ ~mines[arg] /\ res = "Ok"

\* C2: a field built by with_n_mines(h, w, n) holds exactly n mines in every
\* reachable state.
C2_MineCount ==
    BuiltByNMines => Cardinality(MineSquares) = ctor.n_mines

\* a relocation has just moved a mine on a field with several mines
C2_Witness ==
    /\ BuiltByNMines /\ op = "reveal" /\ mines # prev.mines
    /\ ctor.n_mines >= 2 /\ Cardinality(MineSquares) = ctor.n_mines

\* C3: every stored neighbor count equals the number of mines on the squares
\* around the cell, and so lies in 0..8.
C3_NeighborCounts ==
    \A c \in Cells(dim) :
        /\ neighbors[c] = Cardinality({q \in Around(c) : mines[q]})
        /\ neighbors[c] \in 0 .. 8

\* a relocation has just changed some square's count
C3_Witness ==
    /\ op = "reveal" /\ mines # prev.mines
    /\ \E c \in Cells(dim) : neighbors[c] # prev.neighbors[c] /\ neighbors[c] > 0

\* C4 as stated: a reveal call issued before any Win or Lose returns Win
\* exactly when revealed_count = total_cells - total_mines at its end.
C4_Original ==
    (op = "reveal" /\ ~prevOver /\ Returned) => (res = "Win" <=> AtWinCount)

\* C4 amended: on a field with at least one non-mine square, a reveal call
\* issued before any Win or Lose returns Win exactly when it does not return
\* Lose and revealed_count = total_cells - total_mines at its end.
C4_WinExactly ==
    (op = "reveal" /\ ~prevOver /\ Returned /\ SafeSquares # {})
        => (res = "Win" <=> (res # "Lose" /\ AtWinCount))

\* a win on a later move of a game with a mine
C4_Witness ==
    /\ op = "reveal" /\ ~prevOver /\ res = "Win" /\ AtWinCount
    /\ prev.n_revealed > 0 /\ MineSquares # {}

C6_LoseRevealsMines ==
    (RevealedCell /\ WasHidden /\ prev.mines[arg] /\ prev.n_revealed >= 1)
        => /\ res = "Lose"
           /\ mines = prev.mines
           /\ MinesShown
           /\ \A c \in SafeSquares : revealed[c] = prev.revealed[c]

\* a loss on a board with another mine that was still covered
C6_Witness ==
    /\ RevealedCell /\ WasHidden /\ prev.mines[arg] /\ prev.n_revealed >= 1
    /\ res = "Lose"
    /\ \E c \in MineSquares : c # arg /\ ~prev.revealed[c] /\ revealed[c]
    /\ \E c \in SafeSquares : ~revealed[c]

\* C7: reveal and toggle_flag on a point outside the grid return Err and
\* change nothing of the field.
C7_OutOfBounds ==
    (op \in {"reveal", "toggle_flag"} /\ arg \notin Cells(dim))
        => (res = "Err" /\ FieldUnchanged)

\* a rejected flag past both edges in the middle of a game
C7_Witness ==
    /\ op = "toggle_flag" /\ arg[1] >= dim[1] /\ arg[2] >= dim[2]
    /\ res = "Err" /\ n_revealed > 0 /\ \E c \in Cells(dim) : flagged[c]

\* C8 as stated: no square that was hidden and flagged is uncovered by a
\* reveal call; it stays hidden and flagged.
C8_Original ==
    op = "reveal" =>
        \A c \in Cells(dim) :
            (prev.flagged[c] /\ ~prev.revealed[c]) => (flagged[c] /\ ~revealed[c])

\* C8 amended: a reveal call aimed at a hidden flagged square returns Ok and
\* changes nothing; a reveal call never changes a flag bit; and a hidden
\* flagged square is uncovered by a reveal call only if it holds a mine and
\* the call returns Win or Lose (the end-of-game sweep).
C8_FlagsBlockReveal ==
    (op = "reveal" /\ Returned) =>
        /\ (arg \in Cells(dim) /\ prev.flagged[arg] /\ ~prev.revealed[arg])
              => (res = "Ok" /\ FieldUnchanged)
        /\ flagged = prev.flagged
        /\ \A c \in Cells(dim) :
              (prev.flagged[c] /\ ~prev.revealed[c] /\ revealed[c])
                 => (mines[c] /\ res \in {"Win", "Lose"})

\* a flood-fill went around a flagged square next to an uncovered zero
C8_Witness ==
    /\ RevealedCell /\ WasHidden /\ res = "Ok"
    /\ \E c \in Cells(dim) :
          /\ flagged[c] /\ ~revealed[c]
          /\ \E z \in Around(c) : z \in NewlyRevealed /\ neighbors[z] = 0

\* the chord precondition of C9: flags sit exactly on the mines around arg
ChordReady ==
    /\ RevealedCell /\ prev.revealed[arg] /\ ~prev.mines[arg]
    /\ {q \in Around(arg) : prev.flagged[q]} = {q \in Around(arg) : prev.mines[q]}

-----------------------------------------------------------------------------
\* the last call was toggle_flag(arg) on a square of the grid
FlaggedCell == op = "toggle_flag" /\ arg \in Cells(dim)

\* C11: toggle_flag on a square of the grid returns Ok; on a revealed square
\* it changes nothing, otherwise it inverts that square's flag bit and nothing
\* else, so that toggling a hidden square twice restores the field.
C11_ToggleFlagFrame ==
    /\ FlaggedCell =>
          /\ res = "Ok"
          /\ prev.revealed[arg] => FieldUnchanged
          /\ ~prev.revealed[arg] =>
                /\ flagged = [prev.flagged EXCEPT ![arg] = ~prev.flagged[arg]]
                /\ mines = prev.mines /\ neighbors = prev.neighbors
                /\ revealed = prev.revealed /\ n_revealed = prev.n_revealed
    /\ \A c \in Cells(dim) :
          ~revealed[c] => toggle_flag(toggle_flag(Field, c).f, c).f = Field

\* a flag was taken off a hidden square in the middle of a game
C11_Witness ==
    /\ FlaggedCell /\ ~prev.revealed[arg] /\ prev.flagged[arg] /\ ~flagged[arg]
    /\ n_revealed > 0 /\ \E c \in Cells(dim) : c # arg /\ flagged[c]

\* the four views, read off the raw grids
ViewOf(c) ==
    IF ~revealed[c] THEN (IF flagged[c] THEN <<"Flag">> ELSE <<"Hidden">>)
    ELSE IF mines[c] THEN <<"Mine">>
    ELSE <<"Revealed", Cardinality({q \in Around(c) : mines[q]})>>

\* C12: view_sq of a square of the grid is Hidden (not revealed, not
\* flagged), Flag (not revealed, flagged), Revealed(n) (revealed non-mine, n
\* its neighbor-mine count) or Mine (revealed mine); the flag bit does not
\* change the view of a revealed square; a point outside the grid has no view.
C12_ViewCases ==
    /\ \A c \in Cells(dim) :
          /\ view_sq(Field, c) = ViewOf(c)
          /\ revealed[c] =>
                view_sq([Field EXCEPT !.flagged[c] = ~@], c) = view_sq(Field, c)
    /\ \A p \in Points \ Cells(dim) : view_sq(Field, p) = None

\* a flagged mine uncovered by the sweep shows as Mine, next to a Flag
C12_Witness ==
    /\ \E c \in Cells(dim) :
          revealed[c] /\ flagged[c] /\ mines[c] /\ view_sq(Field, c) = <<"Mine">>
    /\ \E c \in Cells(dim) : view_sq(Field, c) = <<"Flag">>
    /\ \E c \in Cells(dim) : view_sq(Field, c) = <<"Revealed", 1>>

RevealedSquares == {c \in Cells(dim) : revealed[c]}

\* C13 as stated: in every reachable state revealed_count is the number of
\* squares whose revealed bit is set.
C13_Original ==
    n_revealed = Cardinality(RevealedSquares)

\* C13 amended: as long as no call has returned Win or Lose, revealed_count is
\* the number of squares whose revealed bit is set; afterwards it is at most
\* that number (the sweep uncovers mines without counting them).
C13_CountMatches ==
    /\ ~over => n_revealed = Cardinality(RevealedSquares)
    /\ n_revealed <= Cardinality(RevealedSquares)

\* a flood-fill has counted several squares in a game still running
C13_Witness ==
    /\ ~over /\ op = "reveal" /\ res = "Ok"
    /\ n_revealed >= prev.n_revealed + 2
    /\ n_revealed = Cardinality(RevealedSquares)

\* C14 as stated: in every reachable state no square is both revealed and
\* flagged.
C14_Original ==
    \A c \in Cells(dim) : ~(revealed[c] /\ flagged[c])

\* C14 amended: as long as no call has returned Win or Lose, no square is
\* both revealed and flagged.
C14_FlagOrRevealed ==
    ~over => \A c \in Cells(dim) : ~(revealed[c] /\ flagged[c])

\* a flag asked for on a revealed square was refused while others are flagged
C14_Witness ==
    /\ ~over /\ FlaggedCell /\ revealed[arg] /\ ~flagged[arg]
    /\ \E c \in Cells(dim) : flagged[c]

\* C15: as long as no call has returned Win or Lose, no mine is revealed.
C15_MinesCovered ==
    (~over /\ Returned) => \A c \in Cells(dim) : ~(mines[c] /\ revealed[c])

\* the first click hit a mine, which was moved under a covered square
C15_Witness ==
    /\ ~over /\ RevealedCell /\ res = "Ok"
    /\ prev.mines[arg] /\ revealed[arg] /\ ~mines[arg]
    /\ Cardinality(MineSquares) >= 2

\* C16: both constructors return a field with every square unrevealed and
\* unflagged, revealed_count 0 and neighbor counts that match the mines placed;
\* with_n_mines places exactly n_mines mines.
C16_FreshField ==
    (op = "new" /\ ctor.built) =>
        /\ dim = <<ctor.height, ctor.width>>
        /\ \A c \in Cells(dim) : ~revealed[c] /\ ~flagged[c]
        /\ n_revealed = 0
        /\ \A c \in Cells(dim) :
              neighbors[c] = Cardinality({q \in Around(c) : mines[q]})
        /\ ctor.fn = "with_n_mines" => Cardinality(MineSquares) = ctor.n_mines

\* a fresh 2x2 field with two mines, one of them diagonal to a safe square
C16_Witness ==
    /\ op = "new" /\ BuiltByNMines /\ ctor.n_mines = 2 /\ dim = <<2, 2>>
    /\ mines[<<1, 1>>] /\ ~mines[<<0, 0>>] /\ neighbors[<<0, 0>>] = 2

C18_IterMatchesView ==
    get_view_iter(Field) =
        [n \in 1 .. dim[1] * dim[2] |->
            view_sq(Field, <<(n - 1) \div dim[2], (n - 1) % dim[2]>>)]

\* a 2x2 board after a loss: a shown mine, a flag, and two squares off the
\* diagonal with different views
C18_Witness ==
    /\ dim = <<2, 2>>
    /\ view_sq(Field, <<0, 1>>) # view_sq(Field, <<1, 0>>)
    /\ \E c \in Cells(dim) : view_sq(Field, c) = <<"Mine">>
    /\ \E c \in Cells(dim) : view_sq(Field, c) = <<"Flag">>

\* what the last call produced
Outcome == [f |-> Field, res |-> res]

\* the squares on which the choose_mut loop of move_mine can stop in the state
\* the last call started from
FreeBefore == {c \in Cells(dim) : ~prev.mines[c]}

\* the last call was a reveal that moves a mine: the first uncovering of the
\* game on a mine, or a reveal of a shown mine while the counter stands at 1
Relocating ==
    /\ RevealedCell /\ prev.mines[arg]
    /\ \/ ~prev.revealed[arg] /\ ~prev.flagged[arg] /\ prev.n_revealed = 0
       \/ prev.revealed[arg] /\ prev.n_revealed = 1

RECURSIVE ZeroChain(_)
ZeroChain(S) ==
    LET T == S \cup {q \in NewlyRevealed :
                        \E c \in S : neighbors[c] = 0 /\ Adjacent(c, q)}
    IN  IF T = S THEN S ELSE ZeroChain(T)

\* the last call was a reveal of a hidden unflagged square that returned Ok or
\* Win
FloodReturned == RevealedCell /\ WasHidden /\ res \in {"Ok", "Win"}

\* every newly revealed square with count 0 has all its neighbors revealed or
\* flagged
ZeroSquaresClosed ==
    \A c \in NewlyRevealed :
        neighbors[c] = 0 => \A q \in Around(c) : revealed[q] \/ flagged[q]

\* C20 as stated: after such a reveal the newly revealed squares with count 0
\* are closed, and every newly revealed square holds no mine and is reached
\* from the clicked square through a chain of squares with count 0.
C20_Original ==
    FloodReturned =>
        /\ ZeroSquaresClosed
        /\ \A c \in NewlyRevealed : ~mines[c] /\ c \in ZeroChain({arg})

\* C20: when a reveal of a hidden unflagged square, issued before any call
\* has returned Win or Lose, returns Ok or Win, the newly revealed squares with
\* count 0 are closed, every newly revealed square without a mine is reached
\* from the clicked square through a chain of squares with count 0, and a mine
\* is newly revealed only by the sweep of a Win.
C20_FloodClosure ==
    (FloodReturned /\ ~prevOver) =>
        /\ ZeroSquaresClosed
        /\ \A c \in NewlyRevealed : ~mines[c] => c \in ZeroChain({arg})
        /\ res = "Ok" => \A c \in NewlyRevealed : ~mines[c]

\* a fill that went through a second square with count 0 and stopped at a
\* flag, on a board with a mine
C20_Witness ==
    /\ FloodReturned /\ ~prevOver /\ res = "Ok" /\ MineSquares # {}
    /\ \E c \in NewlyRevealed \ {arg} :
          neighbors[c] = 0 /\ \E q \in Around(c) : flagged[q] /\ ~revealed[q]

\* C21 as stated: every reveal call terminates and returns a MoveResult, for
\* every field either constructor can produce and every cell argument.
C21_Original ==
    op = "reveal" => res \in {"Ok", "Win", "Lose", "Err"}

\* q1 comes before q2 in row-major order
Before(q1, q2) == q1[1] < q2[1] \/ (q1[1] = q2[1] /\ q1[2] < q2[2])

\* the neighbors of arg that were hidden, unflagged mines when the call was
\* issued
HiddenMinesAround ==
    {q \in Around(arg) : prev.mines[q] /\ ~prev.revealed[q] /\ ~prev.flagged[q]}

\* the last call was a reveal of a revealed safe square with as many flags as
\* mines around it, one of the mines around it hidden and unflagged
ChordOnMine ==
    /\ RevealedCell /\ prev.revealed[arg] /\ ~prev.mines[arg]
    /\ Cardinality({q \in Around(arg) : prev.flagged[q]})
          = Cardinality({q \in Around(arg) : prev.mines[q]})
    /\ HiddenMinesAround # {}

\* the first such mine in iteration order
FirstMineAround ==
    CHOOSE m \in HiddenMinesAround : \A q \in HiddenMinesAround : q = m \/ Before(m, q)

\* the neighbors of arg after that mine in iteration order
AfterMine == {q \in Around(arg) : Before(FirstMineAround, q)}

\* the neighbors of arg the chord uncovered before it reached that mine
UncoveredBeforeMine ==
    {q \in Around(arg) : Before(q, FirstMineAround) /\ q \in NewlyRevealed}

\* C22 as stated: such a chord returns Lose, all mines are revealed, and no
\* neighbor after the mine in iteration order is revealed by the call.
C22_Original ==
    ChordOnMine =>
        /\ res = "Lose"
        /\ MinesShown
        /\ AfterMine \cap NewlyRevealed = {}

\* C22: such a chord returns Lose with all mines revealed, and the loop goes
\* no further than the mine: a neighbor after it is revealed by the call only
\* if it holds a mine (the sweep) or the fill from a neighbor before the mine
\* reached it through squares with count 0.
C22_ChordStopsAtMine ==
    ChordOnMine =>
        /\ res = "Lose"
        /\ MinesShown
        /\ \A q \in AfterMine \cap NewlyRevealed :
              mines[q] \/ q \in ZeroChain(UncoveredBeforeMine)

\* a chord that hit a mine and left a hidden unflagged safe neighbor after it
C22_Witness ==
    /\ ChordOnMine /\ res = "Lose"
    /\ \E q \in AfterMine : ~revealed[q] /\ ~flagged[q] /\ ~mines[q]

\* reveal as the specification words it: the result of the fill is returned
\* at once when it is not Ok, instead of being dropped
RECURSIVE reveal_propagating(_, _, _), reveal_neighbors_propagating(_, _, _, _, _)

reveal_neighbors_propagating(f, p, rnd, k, r) ==
    LET ns == neighbors_iter(f.dim, p) IN
    IF k > Len(ns) THEN [f |-> f, res |-> r]
    ELSE IF ~f.revealed[ns[k]]
         THEN LET c == reveal_propagating(f, ns[k], rnd) IN
              IF c.res # "Ok" THEN c
              ELSE reveal_neighbors_propagating(c.f, p, rnd, k + 1, c.res)
         ELSE reveal_neighbors_propagating(f, p, rnd, k + 1, r)

reveal_propagating(f, p, rnd) ==
    LET v == view_sq(f, p) IN
    IF v = None THEN [f |-> f, res |-> "Err"]
    ELSE IF v = <<"Flag">> THEN [f |-> f, res |-> "Ok"]
    ELSE IF v[1] = "Revealed"
         THEN IF f.neighbors[p]
                    = Cardinality({q \in DOMAIN f.flagged :
                                      Adjacent(p, q) /\ f.flagged[q]})
              THEN reveal_neighbors_propagating(f, p, rnd, 1, "Ok")
              ELSE [f |-> f, res |-> "Ok"]
    ELSE
      LET f1 == IF v = <<"Hidden">> THEN mark_revealed(f, p) ELSE f IN
      IF f1.mines[p] /\ f1.n_revealed # 1
      THEN [f |-> reveal_all_mines(f1), res |-> "Lose"]
      ELSE
        LET mm == IF f1.mines[p] THEN move_mine(f1, p, rnd) ELSE [f |-> f1, res |-> "Ok"] IN
        IF Aborted(mm.res) THEN mm
        ELSE
          LET fl == IF mm.f.neighbors[p] = 0
                    THEN reveal_neighbors_propagating(mm.f, p, rnd, 1, "Ok")
                    ELSE [f |-> mm.f, res |-> "Ok"]
          IN
          IF fl.res # "Ok" THEN fl
          ELSE IF game_won(fl.f)
               THEN [f |-> reveal_all_mines(fl.f), res |-> "Win"]
               ELSE [f |-> fl.f, res |-> "Ok"]

\* the squares the random source can have drawn in the last call
Draws == IF Relocating /\ FreeBefore # {} THEN FreeBefore ELSE {arg}

\* C23: the fill from a square with count 0 never meets a mine, so a reveal
\* that returns the result of the fill and one that drops it end in the same
\* result and the same field, in every reachable state.
C23_FillNeverLoses ==
    /\ \A c \in Cells(dim) : neighbors[c] = 0 => \A q \in Around(c) : ~mines[q]
    /\ op = "reveal" =>
          \E r \in Draws : reveal_propagating(prev, arg, r) = Outcome

\* a fill that went on from a second square with count 0, on a board with a
\* mine, and ended the game
C23_Witness ==
    /\ RevealedCell /\ WasHidden /\ res = "Win" /\ MineSquares # {}
    /\ neighbors[arg] = 0
    /\ \E c \in NewlyRevealed \ {arg} : neighbors[c] = 0

\* the last call was the first uncovering of the game, on a mine, and it
\* returned
FirstClickOnMine ==
    /\ RevealedCell /\ Returned
    /\ prev.mines[arg] /\ ~prev.revealed[arg] /\ ~prev.flagged[arg]
    /\ prev.n_revealed = 0

\* C24: a first-click relocation changes the mine bit of exactly two squares
\* (the clicked square loses its mine, a hidden square other than it that had
\* none gets one), leaves the flags alone, and recomputes the counts before
\* the count of the clicked square decides about the fill.
C24_RelocationFrame ==
    FirstClickOnMine =>
        /\ \E t \in Cells(dim) :
              /\ t # arg /\ ~prev.mines[t] /\ ~prev.revealed[t]
              /\ mines = [prev.mines EXCEPT ![arg] = FALSE, ![t] = TRUE]
        /\ flagged = prev.flagged
        /\ \A c \in Cells(dim) :
              neighbors[c] = Cardinality({q \in Around(c) : mines[q]})
        /\ neighbors[arg] = 0 => \A q \in Around(arg) : revealed[q] \/ flagged[q]
        /\ (neighbors[arg] # 0 /\ res = "Ok") => NewlyRevealed = {arg}

\* the mine moved next to the clicked square, which had count 0 before, onto
\* a flagged square
C24_Witness ==
    /\ FirstClickOnMine
    /\ prev.neighbors[arg] = 0 /\ neighbors[arg] = 1
    /\ \E t \in Around(arg) : mines[t] /\ ~prev.mines[t] /\ flagged[t]

\* C25: no sequence of reveal and toggle_flag calls makes move_mine reject its
\* argument as "not a mine": the unwrap of its result in reveal never panics,
\* and a mine only ever moves away from the clicked square.
C25_MoveMineOnMine ==
    /\ op \in {"reveal", "toggle_flag"} => res # "Panic"
    /\ (op = "reveal" /\ mines # prev.mines) =>
          /\ arg \in Cells(dim) /\ prev.mines[arg] /\ ~mines[arg]
          /\ \A c \in Cells(dim) : (prev.mines[c] /\ ~mines[c]) => c = arg

\* move_mine ran and returned
C25_Witness ==
    /\ Relocating /\ Returned /\ mines # prev.mines /\ res \in {"Ok", "Win"}
    /\ Cardinality(MineSquares) >= 2

\* C26 as stated: after a call has returned Win or Lose, a reveal or
\* toggle_flag call on an already revealed square leaves the whole field
\* unchanged.
C26_Original ==
    (prevOver /\ op \in {"reveal", "toggle_flag"}
        /\ arg \in Cells(dim) /\ prev.revealed[arg]) => FieldUnchanged

\* the last call was a reveal of a square that was already revealed
RevealOfRevealed == RevealedCell /\ prev.revealed[arg]

C28_RevealedMonotone ==
    /\ \A c \in Cells(dim) : prev.revealed[c] => revealed[c]
    /\ n_revealed >= prev.n_revealed
    /\ n_revealed - prev.n_revealed <= Cardinality(NewlyRevealed)
    /\ n_revealed <= Cardinality(RevealedSquares)
    /\ Cardinality(RevealedSquares) <= dim[1] * dim[2]

\* a call after the end of the game that uncovered and counted a square,
\* with the swept mines uncounted
C28_Witness ==
    /\ prevOver /\ RevealedCell /\ n_revealed > prev.n_revealed
    /\ n_revealed < Cardinality(RevealedSquares)

\* C29: before any terminal result, a reveal of a hidden unflagged square
\* returns Lose or leaves revealed_count larger than it was; on a field built
\* by with_n_mines(h, w, n) revealed_count stays below h * w - n as long as no
\* call has returned Win or Lose, so at most h * w - n such calls can return
\* before the game ends.
C29_Progress ==
    /\ (~prevOver /\ RevealedCell /\ WasHidden /\ Returned) =>
          (res = "Lose" \/ n_revealed > prev.n_revealed)
    /\ (BuiltByNMines /\ ~over) =>
          n_revealed < ctor.height * ctor.width - ctor.n_mines

\* the game still runs with a single safe square left to uncover, after a
\* reveal that uncovered a hidden square
C29_Witness ==
    /\ BuiltByNMines /\ ~over /\ RevealedCell /\ WasHidden /\ res = "Ok"
    /\ n_revealed >= 2
    /\ n_revealed = ctor.height * ctor.width - ctor.n_mines - 1

\* p is a square of the UI's grid
OnGrid(p) == p[1] >= 0 /\ p[2] >= 0 /\ p[1] < ui.gridh /\ p[2] < ui.gridw

\* where the last move_cursor call was to take the cursor
MoveTarget ==
    <<uiCall.prev[1] + delta(uiCall.dir)[1], uiCall.prev[2] + delta(uiCall.dir)[2]>>

\* C30 as stated: on a UI created with height > 0 and width > 0 the cursor is
\* always on the grid; a move past an edge and a reset to a point off the grid
\* return Err; an Err leaves the cursor where it was; a legal move changes
\* exactly one coordinate by exactly 1.
C30_Original ==
    (ui.gridh > 0 /\ ui.gridw > 0) =>
        /\ OnGrid(ui.cursor)
        /\ uiCall.res = "Err" => ui.cursor = uiCall.prev
        /\ (uiCall.op = "reset_cursor" /\ ~OnGrid(uiCall.p)) => uiCall.res = "Err"
        /\ (uiCall.op = "move_cursor" /\ ~OnGrid(MoveTarget)) => uiCall.res = "Err"
        /\ (uiCall.op = "move_cursor" /\ OnGrid(MoveTarget)) =>
              (uiCall.res = "Ok" /\ ui.cursor = MoveTarget)

-----------------------------------------------------------------------------
(* GameOfLife::tick *)

\* the last GameOfLife call was tick, issued on the game lifeCall.prev
LifeTicked == lifeCall.op = "tick"

\* number of live cells among the up to 8 cells of the grid around c
LiveAround(g, d, c) == Cardinality({q \in Cells(d) : Adjacent(c, q) /\ g[q]})

\* Conway's rule for cell c of grid g
ConwayNext(g, d, c) ==
    IF g[c] THEN LiveAround(g, d, c) \in {2, 3} ELSE LiveAround(g, d, c) = 3

\* every cell of the grid after tick is Conway's rule applied to the grid
\* before it, with nothing alive outside the grid
TickAppliesConway ==
    LifeTicked =>
        /\ life.dim = lifeCall.prev.dim
        /\ life.grid = [c \in Cells(life.dim) |->
                           ConwayNext(lifeCall.prev.grid, life.dim, c)]

\* tick returned and the step counter is one more than before
StepCounted ==
    LifeTicked => lifeCall.res = "Ok" /\ life.nstep = lifeCall.prev.nstep + 1

\* C31: GameOfLife::tick applies Conway's rule synchronously, from the grid
\* before the tick only and with the cells outside the grid dead, and the
\* step counter increases by exactly 1.
C31_Original == TickAppliesConway /\ StepCounted

-----------------------------------------------------------------------------
(* Langton::tick *)

\* the last Langton call was tick and it returned; it was issued on the
\* simulation langtonCall.prev
AntTicked == langtonCall.op = "tick" /\ langtonCall.res = "Ok"

\* the square the ant stood on when the tick was issued, and its color
AntSquare == langtonCall.prev.pos
AntOnTrue == langtonCall.prev.grid[AntSquare]

UnitVectors == {<<0, 1>>, <<1, 0>>, <<0, -1>>, <<-1, 0>>}

\* which way the heading turned: 1 for a quarter turn one way, -1 for a
\* quarter turn the other way, 0 for no turn or a half turn
TurnSign(old, new) == old[1] * new[2] - old[2] * new[1]

\* the ant is on a square of the grid
AntOnGrid == langton.pos \in Cells(langton.dim)

\* the squares whose color the tick changed
Flipped == {c \in Cells(langton.dim) : langton.grid[c] # langtonCall.prev.grid[c]}

\* the square one step from the ant's old square along its new heading, on
\* the torus
OneStepOn ==
    <<(AntSquare[1] + langton.vel[1]) % langton.dim[1],
      (AntSquare[2] + langton.vel[2]) % langton.dim[2]>>

\* C32: after tick calls the ant is on the grid and its heading is one of the
\* four unit axis vectors; each tick flips exactly the square the ant stood
\* on, turns one way on a false square and the opposite way on a true one,
\* and then moves the ant one step, wrapping around the edges.  Stated of
\* the states in which a tick has returned.
C32_Original ==
    AntTicked =>
        /\ AntOnGrid
        /\ langton.vel \in UnitVectors
        /\ Flipped = {AntSquare}
        /\ TurnSign(langtonCall.prev.vel, langton.vel) = (IF AntOnTrue THEN -1 ELSE 1)
        /\ langton.pos = OneStepOn

\* what holds of every tick that returned: all of the above but the step
TickKeepsAntOnGrid ==
    AntTicked =>
        /\ AntOnGrid
        /\ langton.vel \in UnitVectors
        /\ Flipped = {AntSquare}
        /\ TurnSign(langtonCall.prev.vel, langton.vel) = (IF AntOnTrue THEN -1 ELSE 1)

\* the step is right on the grids whose sides an i32 can count
StepOnCountableGrid ==
    AntTicked /\ langton.dim[1] <= i32_MAX /\ langton.dim[2] <= i32_MAX
        => langton.pos = OneStepOn

====
